---- MODULE Spec2Model ----
(***************************************************************************)
(* State-machine model of the COE class (src/src/COE.py): one COE object,  *)
(* its loader (load_file, _extract_image_from_pdf), the normalisation step *)
(* (resize_image) and the region extractors.                               *)
(*                                                                         *)
(* A PIL image is modelled by its size and by where its pixels come from:  *)
(* the decoded bitmap it derives from (src), whether that bitmap went      *)
(* through resize, the offset (ox, oy) of its top-left corner in the frame *)
(* of the held image, and the part of that frame its pixels really show    *)
(* (vis); Image.crop pads whatever lies outside its source with blank      *)
(* pixels, so a crop keeps the size of its box and loses visible area.     *)
(***************************************************************************)
EXTENDS Integers, Sequences, FiniteSets, TLC

VARIABLES
    file_data,        \* self.file_data: the bytes given to the constructor
    image,            \* self.image: <<>> for None, <<img>> for a PIL image
    top_image_width,  \* self.top_image_width: None until first cached
    cropped_height,   \* self.cropped_height: None until first cached
    result,           \* outcome of the latest call on the object
    normalized,       \* history: resize_image completed on the held image
    memo,             \* history: one earlier extraction call and what it returned
    filename,         \* coe.filename of the upload an endpoint is given
    response          \* what the endpoint answered to the latest request

vars == <<file_data, image, top_image_width, cropped_height, result, normalized, memo,
          filename, response>>

coe == <<file_data, image, top_image_width, cropped_height>>

(***************************************************************************)
(* Bounds of the model.                                                    *)
(***************************************************************************)
MaxPages == 2
MaxImages == 2
MaxBandHeight == 240

(***************************************************************************)
(* COE.__init__: the template constants.                                   *)
(***************************************************************************)
None == -1
target_width == 850
target_height == 1000
top_image_x == 0
top_image_y == 112
top_image_height == 60
semester_x == 300
semester_width == 250
semester_height == 17
student_name_x == 105
student_name_y == 20
student_name_width == 400
student_name_height == 20
course_x == 105
course_y == 40
course_width == 400
course_height == 20
student_no_x == 665
student_no_y == 20
student_no_width == 150
student_no_height == 20
acad_year_x == 665
acad_year_y == 40
acad_year_width == 150
acad_year_height == 20
block_no_x == 275
block_no_y == 0
block_no_width == 100
block_no_height == 25
bottom_image_x == 0
bottom_image_y == 206
cropped_width == 520
footer_reserve == 306
row_start == 30
row_height == 45

(***************************************************************************)
(* Python truthiness of an int-or-None attribute: `not v`.                 *)
(***************************************************************************)
Falsy(v) == v = None \/ v = 0

(***************************************************************************)
(* Exceptions: the type and message the code raises.                       *)
(***************************************************************************)
NoError == [type |-> "", msg |-> ""]
UnsupportedFormat == [type |-> "ValueError", msg |-> "Unsupported file format or corrupt data."]
NoEmbeddedImage == [type |-> "ValueError", msg |-> "The provided PDF does not contain any images."]
ImageNotLoaded == [type |-> "ValueError", msg |-> "No image loaded. Please load a file first."]
InvalidField == [type |-> "ValueError", msg |-> "Invalid field name."]
UnidentifiedImage == [type |-> "IOError", msg |-> "cannot identify image file"]
FileDataError == [type |-> "FileDataError", msg |-> "Failed to open stream"]

(***************************************************************************)
(* Rectangles (x0, y0, x1, y1), half open, and PIL images.                 *)
(***************************************************************************)
Max2(a, b) == IF a >= b THEN a ELSE b
Min2(a, b) == IF a <= b THEN a ELSE b

Rect(x0, y0, x1, y1) == [x0 |-> x0, y0 |-> y0, x1 |-> x1, y1 |-> y1]

EmptyRect == Rect(0, 0, 0, 0)

Intersect(r, s) ==
    LET x0 == Max2(r.x0, s.x0)
        y0 == Max2(r.y0, s.y0)
        x1 == Min2(r.x1, s.x1)
        y1 == Min2(r.y1, s.y1)
    IN IF x0 < x1 /\ y0 < y1 THEN Rect(x0, y0, x1, y1) ELSE EmptyRect

Within(r, s) == s.x0 <= r.x0 /\ s.y0 <= r.y0 /\ r.x1 <= s.x1 /\ r.y1 <= s.y1

\* A freshly decoded bitmap: it is its own frame.
Bitmap(w, h, src) ==
    [width |-> w, height |-> h, src |-> src, resized |-> FALSE,
     ox |-> 0, oy |-> 0, vis |-> Rect(0, 0, w, h)]

\* The rectangle an image occupies in the frame of the held image.
Frame(img) == Rect(img.ox, img.oy, img.ox + img.width, img.oy + img.height)

\* Image.resize((w, h)): a stretched copy, always exactly w x h.
PIL_resize(img, w, h) ==
    [width |-> w, height |-> h, src |-> img.src, resized |-> TRUE,
     ox |-> 0, oy |-> 0, vis |-> Rect(0, 0, w, h)]

\* Image.crop((left, upper, right, lower)): the result has the size of the
\* box; pixels of the box outside the source are blank.
PIL_crop(img, left, upper, right, lower) ==
    LET w == right - left
        h == lower - upper
        x == img.ox + left
        y == img.oy + upper
    IN [width |-> w, height |-> h, src |-> img.src, resized |-> img.resized,
        ox |-> x, oy |-> y,
        vis |-> Intersect(img.vis, Rect(x, y, x + w, y + h))]

(***************************************************************************)
(* Byte buffers.  A buffer is described by what the decoders make of it:   *)
(* a raster image of some size, a PDF with its pages (each page the list   *)
(* of its embedded images, themselves byte buffers, in resource-list       *)
(* order), or bytes that are neither.                                      *)
(***************************************************************************)
RasterBytes(w, h) == [kind |-> "raster", width |-> w, height |-> h, pages |-> <<>>]
PdfBytes(pages) == [kind |-> "pdf", width |-> 0, height |-> 0, pages |-> pages]
OtherBytes == [kind |-> "other", width |-> 0, height |-> 0, pages |-> <<>>]

SeqsUpTo(S, n) == UNION {[1..k -> S] : k \in 0..n}

Widths == {400, 600, 850, 1200}
Heights == {800, 1000}
RasterFiles == {RasterBytes(w, h) : w \in Widths, h \in Heights}

\* What a PDF may embed: images PIL can open and a stream it cannot.
EmbeddedImages == {RasterBytes(400, 800), OtherBytes}
ImageLists == SeqsUpTo(EmbeddedImages, MaxImages)
PdfFiles == {PdfBytes(pages) : pages \in SeqsUpTo(ImageLists, MaxPages)}

Files == RasterFiles \cup PdfFiles \cup {OtherBytes}

\* The files the object's whole life is followed for: every raster size, a
\* PDF with an image on its second page, a PDF without images, other bytes.
SamplePdf == PdfBytes(<< <<>>, <<RasterBytes(400, 800), OtherBytes>> >>)
LifeFiles == RasterFiles \cup {SamplePdf, PdfBytes(<< <<>> >>), OtherBytes}

(***************************************************************************)
(* Outcomes of a call: what it returned or raised, and the object after.   *)
(***************************************************************************)
NoScan == [pages_scanned |-> 0, extracted |-> <<>>]

Return(self, img) ==
    [self |-> self, status |-> "returned", error |-> NoError,
     image |-> <<img>>, rows |-> <<>>, scan |-> NoScan]

ReturnNone(self, scan) ==
    [self |-> self, status |-> "returned", error |-> NoError,
     image |-> <<>>, rows |-> <<>>, scan |-> scan]

ReturnRows(self, rows) ==
    [self |-> self, status |-> "returned", error |-> NoError,
     image |-> <<>>, rows |-> rows, scan |-> NoScan]

Raise(self, e, scan) ==
    [self |-> self, status |-> "raised", error |-> e,
     image |-> <<>>, rows |-> <<>>, scan |-> scan]

(***************************************************************************)
(* Image.open(io.BytesIO(data)): a bitmap, or IOError.  src names the      *)
(* bitmap: <<0, 0>> for the buffer itself, <<page, index>> for an image    *)
(* embedded in a PDF.                                                      *)
(***************************************************************************)
PIL_open(data, src) ==
    IF data.kind = "raster"
    THEN [status |-> "returned", error |-> NoError,
          image |-> <<Bitmap(data.width, data.height, src)>>]
    ELSE [status |-> "raised", error |-> UnidentifiedImage, image |-> <<>>]

\* fitz.open(stream=data, filetype="pdf")
fitz_open(data) ==
    IF data.kind = "pdf"
    THEN [status |-> "returned", error |-> NoError, pages |-> data.pages]
    ELSE [status |-> "raised", error |-> FileDataError, pages |-> <<>>]

(***************************************************************************)
(* COE._extract_image_from_pdf.  Pages are numbered from 1 here (page_num  *)
(* + 1 of the code).  The body of `for img in image_list` returns or       *)
(* raises in its first iteration, so one image of the page is taken.       *)
(***************************************************************************)
LastIndex(image_list) == Len(image_list)

FirstIndex(image_list) == 1

RECURSIVE ScanPages(_, _)
ScanPages(pages, page_num) ==
    IF page_num > Len(pages)
    THEN [status |-> "raised", error |-> NoEmbeddedImage, image |-> <<>>,
          scan |-> [pages_scanned |-> Len(pages), extracted |-> <<>>]]
    ELSE LET image_list == pages[page_num] IN
         IF image_list # <<>>
         THEN LET i == FirstIndex(image_list)
                  opened == PIL_open(image_list[i], <<page_num, i>>)
              IN [status |-> opened.status, error |-> opened.error,
                  image |-> opened.image,
                  scan |-> [pages_scanned |-> page_num,
                            extracted |-> << <<page_num, i>> >>]]
         ELSE ScanPages(pages, page_num + 1)

_extract_image_from_pdf(data) ==
    LET pdf_document == fitz_open(data) IN
    IF pdf_document.status = "raised"
    THEN [status |-> "raised", error |-> pdf_document.error, image |-> <<>>,
          scan |-> NoScan]
    ELSE ScanPages(pdf_document.pages, 1)

(***************************************************************************)
(* COE.load_file.  `except Exception` turns whatever the PDF path raised   *)
(* into one ValueError.                                                    *)
(***************************************************************************)
Reraise(e) == e

WrapError(e) == UnsupportedFormat

load_file(self, data) ==
    LET opened == PIL_open(data, <<0, 0>>) IN
    IF opened.status = "returned"
    THEN ReturnNone([self EXCEPT !.image = opened.image], NoScan)
    ELSE LET extracted == _extract_image_from_pdf(data) IN
         IF extracted.status = "returned"
         THEN ReturnNone([self EXCEPT !.image = extracted.image], extracted.scan)
         ELSE Raise(self, WrapError(extracted.error), extracted.scan)

(***************************************************************************)
(* COE.resize_image, COE.get_coe_image                                     *)
(***************************************************************************)
resize_image_swapped(self) ==
    IF self.image = <<>>
    THEN Raise(self, ImageNotLoaded, NoScan)
    ELSE ReturnNone([self EXCEPT !.image =
                        <<PIL_resize(self.image[1], target_height, target_width)>>],
                    NoScan)

resize_image(self) ==
    IF self.image = <<>>
    THEN Raise(self, ImageNotLoaded, NoScan)
    ELSE ReturnNone([self EXCEPT !.image =
                        <<PIL_resize(self.image[1], target_width, target_height)>>],
                    NoScan)

get_coe_image(self) ==
    IF self.image = <<>>
    THEN Raise(self, ImageNotLoaded, NoScan)
    ELSE Return(self, self.image[1])

(***************************************************************************)
(* COE.get_top_image, COE.get_bottom_image: the band is cropped with the   *)
(* cached dimension, which is set on the first call that finds it unset.   *)
(***************************************************************************)
get_top_image_keep(self) ==
    IF self.image = <<>>
    THEN Raise(self, ImageNotLoaded, NoScan)
    ELSE LET w == IF Falsy(self.top_image_width)
                  THEN self.image[1].width
                  ELSE self.top_image_width
             top_image == PIL_crop(self.image[1], top_image_x, top_image_y,
                                   top_image_x + w, top_image_y + top_image_height)
         IN Return([self EXCEPT !.top_image_width = w, !.image = <<top_image>>],
                   top_image)

get_top_image(self) ==
    IF self.image = <<>>
    THEN Raise(self, ImageNotLoaded, NoScan)
    ELSE LET w == IF Falsy(self.top_image_width)
                  THEN self.image[1].width
                  ELSE self.top_image_width
             top_image == PIL_crop(self.image[1], top_image_x, top_image_y,
                                   top_image_x + w, top_image_y + top_image_height)
         IN Return([self EXCEPT !.top_image_width = w], top_image)

get_bottom_image_keep(self) ==
    IF self.image = <<>>
    THEN Raise(self, ImageNotLoaded, NoScan)
    ELSE LET h == IF self.cropped_height = None
                  THEN target_height - footer_reserve
                  ELSE self.cropped_height
             bottom_image == PIL_crop(self.image[1], bottom_image_x, bottom_image_y,
                                      bottom_image_x + cropped_width,
                                      bottom_image_y + h)
         IN Return([self EXCEPT !.cropped_height = h, !.image = <<bottom_image>>],
                   bottom_image)

get_bottom_image(self) ==
    IF self.image = <<>>
    THEN Raise(self, ImageNotLoaded, NoScan)
    ELSE LET h == IF self.cropped_height = None
                  THEN target_height - footer_reserve
                  ELSE self.cropped_height
             bottom_image == PIL_crop(self.image[1], bottom_image_x, bottom_image_y,
                                      bottom_image_x + cropped_width,
                                      bottom_image_y + h)
         IN Return([self EXCEPT !.cropped_height = h], bottom_image)

(***************************************************************************)
(* COE._extract_text_region and the six named extractors.                  *)
(***************************************************************************)
Box(x, y, width, height) == [x |-> x, y |-> y, width |-> width, height |-> height]

coordinates ==
    [student_name |-> Box(student_name_x, student_name_y,
                          student_name_width, student_name_height),
     course |-> Box(course_x, course_y, course_width, course_height),
     student_no |-> Box(student_no_x, student_no_y,
                        student_no_width, student_no_height),
     acad_year |-> Box(acad_year_x, acad_year_y,
                       acad_year_width, acad_year_height),
     semester |-> Box(semester_x, 0, semester_width, semester_height),
     block_no |-> Box(block_no_x, block_no_y, block_no_width, block_no_height)]

_extract_text_region(self, field, from_bottom) ==
    IF field \notin DOMAIN coordinates
    THEN Raise(self, InvalidField, NoScan)
    ELSE LET c == coordinates[field]
             image_source == IF from_bottom
                             THEN get_bottom_image(self)
                             ELSE get_top_image(self)
         IN IF image_source.status = "raised"
            THEN image_source
            ELSE Return(image_source.self,
                        PIL_crop(image_source.image[1],
                                 c.x, c.y, c.x + c.width, c.y + c.height))

extract_semester(self) == _extract_text_region(self, "semester", FALSE)
extract_block_no(self) == _extract_text_region(self, "block_no", TRUE)
extract_student_name(self) == _extract_text_region(self, "student_name", FALSE)
extract_course(self) == _extract_text_region(self, "course", FALSE)
extract_student_no(self) == _extract_text_region(self, "student_no", FALSE)
extract_acad_year(self) == _extract_text_region(self, "acad_year", FALSE)

(***************************************************************************)
(* COE.extract_classes: the walk over the class rows of the bottom band.   *)
(***************************************************************************)
RowFitsStrict(y, height) == y + row_height < height

\* while y + 45 <= bottom_image.height
RowFits(y, height) == y + row_height <= height

ClassRowEvenSplit(bottom_image, y) ==
    LET class_image == PIL_crop(bottom_image, 0, y, cropped_width, y + row_height)
        middle_image == PIL_crop(class_image, 90, 0, 470, 45)
    IN [class_code |-> PIL_crop(class_image, 0, 0, 90, 45),
        unit_count |-> PIL_crop(class_image, 490, 5, 520, 40),
        subject_name |-> PIL_crop(middle_image, 0, 0, 380, 23),
        schedule |-> PIL_crop(middle_image, 0, 23, 380, 45)]

\* The body of the loop: the row at y and its four crops.
ClassRow(bottom_image, y) ==
    LET class_image == PIL_crop(bottom_image, 0, y, cropped_width, y + row_height)
        middle_image == PIL_crop(class_image, 90, 0, 470, 45)
    IN [class_code |-> PIL_crop(class_image, 0, 0, 90, 45),
        unit_count |-> PIL_crop(class_image, 490, 5, 520, 40),
        subject_name |-> PIL_crop(middle_image, 0, 0, 380, 22),
        schedule |-> PIL_crop(middle_image, 0, 22, 380, 45)]

RECURSIVE ClassWalkReversed(_, _, _)
ClassWalkReversed(bottom_image, y, classes_data) ==
    IF RowFits(y, bottom_image.height)
    THEN ClassWalkReversed(bottom_image, y + row_height,
                           <<ClassRow(bottom_image, y)>> \o classes_data)
    ELSE classes_data

RECURSIVE ClassWalk(_, _, _)
ClassWalk(bottom_image, y, classes_data) ==
    IF RowFits(y, bottom_image.height)
    THEN ClassWalk(bottom_image, y + row_height,
                   Append(classes_data, ClassRow(bottom_image, y)))
    ELSE classes_data

extract_classes(self) ==
    IF self.image = <<>>
    THEN Raise(self, ImageNotLoaded, NoScan)
    ELSE LET bottom_image == get_bottom_image(self) IN
         IF bottom_image.status = "raised"
         THEN bottom_image
         ELSE ReturnRows(bottom_image.self,
                         ClassWalk(bottom_image.image[1], row_start, <<>>))

(***************************************************************************)
(* The state machine: one COE object and the calls a caller makes on it.   *)
(***************************************************************************)
Self == [image |-> image, top_image_width |-> top_image_width,
         cropped_height |-> cropped_height]

NoResult ==
    [op |-> "", status |-> "", error |-> NoError,
     image |-> <<>>, rows |-> <<>>, scan |-> NoScan]

NoMemo ==
    [op |-> "", status |-> "", image |-> <<>>, rows |-> <<>>,
     again |-> FALSE, others |-> FALSE]

\* No request answered: the object is used directly, not through an endpoint.
NoResponse ==
    [route |-> "", status_code |-> 0, media_type |-> "", body |-> "", image |-> <<>>]

\* The object and the latest outcome after a call of op that ended as r.
Apply(op, r) ==
    /\ image' = r.self.image
    /\ top_image_width' = r.self.top_image_width
    /\ cropped_height' = r.self.cropped_height
    /\ result' = [op |-> op, status |-> r.status, error |-> r.error,
                  image |-> r.image, rows |-> r.rows, scan |-> r.scan]
    /\ UNCHANGED <<file_data, filename, response>>

\* History of one extraction call: the first call remembered stays in memo
\* until the next load_file or resize_image.
Remember(op, r) ==
    IF memo.op = ""
    THEN memo' \in {memo,
                    [op |-> op, status |-> r.status, image |-> r.image,
                     rows |-> r.rows, again |-> FALSE, others |-> FALSE]}
    ELSE IF memo.op = op
         THEN memo' = [memo EXCEPT !.again = TRUE]
         ELSE memo' = [memo EXCEPT !.others = TRUE]

Init ==
    /\ file_data \in LifeFiles
    /\ image = <<>>
    /\ top_image_width = None
    /\ cropped_height = None
    /\ result = NoResult
    /\ normalized = FALSE
    /\ memo = NoMemo
    /\ filename = <<>>
    /\ response = NoResponse

LoadFile ==
    LET r == load_file(Self, file_data) IN
    /\ Apply("load_file", r)
    /\ normalized' = IF r.status = "returned" THEN FALSE ELSE normalized
    /\ memo' = NoMemo

ResizeImage ==
    LET r == resize_image(Self) IN
    /\ Apply("resize_image", r)
    /\ normalized' = IF r.status = "returned" THEN TRUE ELSE normalized
    /\ memo' = NoMemo

GetCoeImage ==
    LET r == get_coe_image(Self) IN
    /\ Apply("get_coe_image", r)
    /\ Remember("get_coe_image", r)
    /\ UNCHANGED normalized

GetTopImage ==
    LET r == get_top_image(Self) IN
    /\ Apply("get_top_image", r)
    /\ Remember("get_top_image", r)
    /\ UNCHANGED normalized

GetBottomImage ==
    LET r == get_bottom_image(Self) IN
    /\ Apply("get_bottom_image", r)
    /\ Remember("get_bottom_image", r)
    /\ UNCHANGED normalized

ExtractSemester ==
    LET r == extract_semester(Self) IN
    /\ Apply("extract_semester", r)
    /\ Remember("extract_semester", r)
    /\ UNCHANGED normalized

ExtractBlockNo ==
    LET r == extract_block_no(Self) IN
    /\ Apply("extract_block_no", r)
    /\ Remember("extract_block_no", r)
    /\ UNCHANGED normalized

ExtractStudentName ==
    LET r == extract_student_name(Self) IN
    /\ Apply("extract_student_name", r)
    /\ Remember("extract_student_name", r)
    /\ UNCHANGED normalized

ExtractCourse ==
    LET r == extract_course(Self) IN
    /\ Apply("extract_course", r)
    /\ Remember("extract_course", r)
    /\ UNCHANGED normalized

ExtractStudentNo ==
    LET r == extract_student_no(Self) IN
    /\ Apply("extract_student_no", r)
    /\ Remember("extract_student_no", r)
    /\ UNCHANGED normalized

ExtractAcadYear ==
    LET r == extract_acad_year(Self) IN
    /\ Apply("extract_acad_year", r)
    /\ Remember("extract_acad_year", r)
    /\ UNCHANGED normalized

ExtractClasses ==
    LET r == extract_classes(Self) IN
    /\ Apply("extract_classes", r)
    /\ Remember("extract_classes", r)
    /\ UNCHANGED normalized


Next ==
    \/ LoadFile
    \/ ResizeImage
    \/ GetCoeImage
    \/ GetTopImage
    \/ GetBottomImage
    \/ ExtractSemester
    \/ ExtractBlockNo
    \/ ExtractStudentName
    \/ ExtractCourse
    \/ ExtractStudentNo
    \/ ExtractAcadYear
    \/ ExtractClasses

Spec == Init /\ [][Next]_vars

(***************************************************************************)
(* The loader over every byte buffer of the bounds.                        *)
(***************************************************************************)
InitLoad ==
    /\ file_data \in Files
    /\ image = <<>>
    /\ top_image_width = None
    /\ cropped_height = None
    /\ result = NoResult
    /\ normalized = FALSE
    /\ memo = NoMemo
    /\ filename = <<>>
    /\ response = NoResponse

NextLoad ==
    \/ LoadFile
    \/ ResizeImage
    \/ GetCoeImage

SpecLoad == InitLoad /\ [][NextLoad]_vars

(***************************************************************************)
(* The row walk as a function of the band height: a loaded and normalized  *)
(* object whose cropped_height is already set (get_bottom_image keeps a    *)
(* value that is not None), or still None.                                 *)
(***************************************************************************)
BandHeights == {None} \cup (0..MaxBandHeight)

InitRows ==
    /\ file_data = RasterBytes(600, 800)
    /\ image = <<PIL_resize(Bitmap(600, 800, <<0, 0>>), target_width, target_height)>>
    /\ top_image_width = None
    /\ cropped_height \in BandHeights
    /\ result = NoResult
    /\ normalized = TRUE
    /\ memo = NoMemo
    /\ filename = <<>>
    /\ response = NoResponse

NextRows == ExtractClasses

SpecRows == InitRows /\ [][NextRows]_vars

(***************************************************************************)
(* The HTTP endpoints (src/src/routers/image.py).  Every handler has the   *)
(* same body: the filename test, then COE(file_bytes), load_file,          *)
(* resize_image and one extraction, whose image is answered as PNG.        *)
(* A filename is a sequence of characters.                                 *)
(***************************************************************************)
Lower(c) ==
    CASE c = "C" -> "c"
      [] c = "O" -> "o"
      [] c = "E" -> "e"
      [] c = "P" -> "p"
      [] c = "D" -> "d"
      [] c = "F" -> "f"
      [] OTHER -> c

\* str.lower()
lower(name) == [i \in 1..Len(name) |-> Lower(name[i])]

\* str.endswith(suffix)
endswith(name, suffix) ==
    /\ Len(name) >= Len(suffix)
    /\ SubSeq(name, Len(name) - Len(suffix) + 1, Len(name)) = suffix

Filenames ==
    {<<>>,
     <<"c", "o", "e", ".", "p", "d", "f">>,
     <<"C", "O", "E", ".", "P", "D", "F">>,
     <<"c", "o", "e", ".", "p", "n", "g">>,
     <<"c", "o", "e", "p", "d", "f">>}

\* if not coe.filename or not str(coe.filename).lower().endswith('.pdf')
InvalidFileType(name) ==
    name = <<>> \/ ~endswith(lower(name), <<".", "p", "d", "f">>)

\* The extraction each route calls on its COE instance.
RouteMethod ==
    [image |-> "get_coe_image",
     course |-> "extract_course",
     year_level |-> "extract_acad_year",
     student_name |-> "extract_student_name",
     student_no |-> "extract_student_no",
     block_no |-> "extract_block_no",
     bottom |-> "get_bottom_image",
     top |-> "get_top_image"]

CallMethod(op, self) ==
    CASE op = "get_coe_image" -> get_coe_image(self)
      [] op = "extract_course" -> extract_course(self)
      [] op = "extract_acad_year" -> extract_acad_year(self)
      [] op = "extract_student_name" -> extract_student_name(self)
      [] op = "extract_student_no" -> extract_student_no(self)
      [] op = "extract_block_no" -> extract_block_no(self)
      [] op = "get_bottom_image" -> get_bottom_image(self)
      [] op = "get_top_image" -> get_top_image(self)

\* COE(file_bytes): a fresh instance.
NewCOE == [image |-> <<>>, top_image_width |-> None, cropped_height |-> None]

InvalidFileTypeBody == "Invalid file type. Please upload a valid PDF file."

\* return {"error": ...}: an ordinary JSON answer, the COE is never built.
Rejected(route) ==
    [route |-> route, status_code |-> 200, media_type |-> "application/json",
     body |-> InvalidFileTypeBody, image |-> <<>>]

\* StreamingResponse(img_byte_arr, media_type="image/png")
PngResponse(route, img) ==
    [route |-> route, status_code |-> 200, media_type |-> "image/png",
     body |-> "", image |-> img]

\* except Exception: the request ends as a server error.
ServerError(route) ==
    [route |-> route, status_code |-> 500, media_type |-> "application/json",
     body |-> "An unexpected error occurred. Please try again.", image |-> <<>>]

\* The body of a handler: the answer, the COE instance it leaves behind and
\* the last COE call it made.
Handler(route, name, file_bytes) ==
    IF InvalidFileType(name)
    THEN [response |-> Rejected(route), op |-> "", normalized |-> FALSE,
          outcome |-> ReturnNone(NewCOE, NoScan)]
    ELSE LET loaded == load_file(NewCOE, file_bytes) IN
         IF loaded.status = "raised"
         THEN [response |-> ServerError(route), op |-> "load_file",
               normalized |-> FALSE, outcome |-> loaded]
         ELSE LET resized == resize_image(loaded.self) IN
              IF resized.status = "raised"
              THEN [response |-> ServerError(route), op |-> "resize_image",
                    normalized |-> FALSE, outcome |-> resized]
              ELSE LET cropped == CallMethod(RouteMethod[route], resized.self) IN
                   IF cropped.status = "raised"
                   THEN [response |-> ServerError(route), op |-> RouteMethod[route],
                         normalized |-> TRUE, outcome |-> cropped]
                   ELSE [response |-> PngResponse(route, cropped.image),
                         op |-> RouteMethod[route],
                         normalized |-> TRUE, outcome |-> cropped]

\* The state a handler run h leaves: its answer, its COE instance and the
\* last COE call it made.
Answer(h) ==
    /\ response' = h.response
    /\ image' = h.outcome.self.image
    /\ top_image_width' = h.outcome.self.top_image_width
    /\ cropped_height' = h.outcome.self.cropped_height
    /\ result' = IF h.op = ""
                 THEN NoResult
                 ELSE [op |-> h.op, status |-> h.outcome.status,
                       error |-> h.outcome.error, image |-> h.outcome.image,
                       rows |-> h.outcome.rows, scan |-> h.outcome.scan]
    /\ normalized' = h.normalized
    /\ memo' = NoMemo

extract_image_from_pdf ==
    LET h == Handler("image", filename, file_data) IN
    /\ Answer(h)
    /\ UNCHANGED <<file_data, filename>>

extract_course_image_from_pdf ==
    LET h == Handler("course", filename, file_data) IN
    /\ Answer(h)
    /\ UNCHANGED <<file_data, filename>>

extract_year_level_image_from_pdf ==
    LET h == Handler("year_level", filename, file_data) IN
    /\ Answer(h)
    /\ UNCHANGED <<file_data, filename>>

extract_student_name_image_from_pdf ==
    LET h == Handler("student_name", filename, file_data) IN
    /\ Answer(h)
    /\ UNCHANGED <<file_data, filename>>

extract_student_no_image_from_pdf ==
    LET h == Handler("student_no", filename, file_data) IN
    /\ Answer(h)
    /\ UNCHANGED <<file_data, filename>>

extract_block_no_image_from_pdf ==
    LET h == Handler("block_no", filename, file_data) IN
    /\ Answer(h)
    /\ UNCHANGED <<file_data, filename>>

extract_bottom_image_from_pdf ==
    LET h == Handler("bottom", filename, file_data) IN
    /\ Answer(h)
    /\ UNCHANGED <<file_data, filename>>

extract_top_image_from_pdf ==
    LET h == Handler("top", filename, file_data) IN
    /\ Answer(h)
    /\ UNCHANGED <<file_data, filename>>

InitRoute ==
    /\ file_data \in LifeFiles
    /\ filename \in Filenames
    /\ image = <<>>
    /\ top_image_width = None
    /\ cropped_height = None
    /\ result = NoResult
    /\ normalized = FALSE
    /\ memo = NoMemo
    /\ response = NoResponse

NextRoute ==
    \/ extract_image_from_pdf
    \/ extract_course_image_from_pdf
    \/ extract_year_level_image_from_pdf
    \/ extract_student_name_image_from_pdf
    \/ extract_student_no_image_from_pdf
    \/ extract_block_no_image_from_pdf
    \/ extract_bottom_image_from_pdf
    \/ extract_top_image_from_pdf

SpecRoute == InitRoute /\ [][NextRoute]_vars

(***************************************************************************)
(* Properties.                                                             *)
(***************************************************************************)
Loaded == image # <<>>

Returned(op) == result.op = op /\ result.status = "returned"

\* C1: once load_file and then resize_image have completed, the held image
\* is exactly 850 wide and 1000 high, whatever the original size, and stays
\* so over every further resize_image (and extraction) call.
C1_NormalizedSize ==
    normalized => /\ Loaded
                  /\ image[1].width = 850
                  /\ image[1].height = 1000

C1_Witness ==
    /\ normalized
    /\ Returned("resize_image")
    /\ file_data = RasterBytes(600, 800)
    /\ image[1].width = 850
    /\ image[1].height = 1000

ExtractionOps ==
    {"get_top_image", "get_bottom_image", "extract_semester", "extract_block_no",
     "extract_student_name", "extract_course", "extract_student_no",
     "extract_acad_year", "extract_classes"}

\* C2: an extraction call made while load_file and then resize_image have
\* not both completed on the held image raises an error and leaves every
\* field of the COE object as it was.
C2_ExtractionNeedsNormalized ==
    [][(result'.op \in ExtractionOps /\ ~(Loaded /\ normalized))
         => (result'.status = "raised" /\ UNCHANGED coe)]_vars

ZeroImagePdf(data) ==
    /\ data.kind = "pdf"
    /\ \A p \in 1..Len(data.pages) : data.pages[p] = <<>>

\* C3: load_file on a PDF without any embedded image raises an error that
\* differs from the error it raises for bytes that are neither a raster
\* image nor a PDF.
C3_NoEmbeddedImageDistinct ==
    (result.op = "load_file" /\ ZeroImagePdf(file_data))
        => /\ result.status = "raised"
           /\ result.error # load_file(Self, OtherBytes).error

\* C4: load_file on bytes that are neither a raster image nor a PDF raises
\* ValueError("Unsupported file format or corrupt data.") and never returns.
C4_UnsupportedFormat ==
    (result.op = "load_file" /\ file_data.kind = "other")
        => /\ result.status = "raised"
           /\ result.error = [type |-> "ValueError",
                              msg |-> "Unsupported file format or corrupt data."]
           /\ ~Loaded

C4_Witness ==
    /\ result.op = "load_file"
    /\ file_data = OtherBytes
    /\ result.status = "raised"

HasEmbeddedImage(data) ==
    /\ data.kind = "pdf"
    /\ \E p \in 1..Len(data.pages) : data.pages[p] # <<>>

\* The first page, in document order, that holds an image.
FirstImagePage(data) ==
    CHOOSE p \in 1..Len(data.pages) :
        /\ data.pages[p] # <<>>
        /\ \A q \in 1..(p - 1) : data.pages[q] = <<>>

\* What the scan may touch: the pages up to the first one with an image, and
\* the first image of that page only.
FirstImageScan(data) ==
    [pages_scanned |-> FirstImagePage(data),
     extracted |-> << <<FirstImagePage(data), 1>> >>]

C6_RowCount ==
    Returned("extract_classes")
        => LET H == cropped_height IN
           /\ Len(result.rows) = IF H >= 30 THEN (H - 30) \div 45 ELSE 0
           /\ H = 694 => Len(result.rows) = 14

C6_Witness ==
    /\ Returned("extract_classes")
    /\ cropped_height = 694
    /\ Len(result.rows) = 14

FieldRect ==
    [extract_student_name |-> Rect(105, 132, 505, 152),
     extract_course |-> Rect(105, 152, 505, 172),
     extract_student_no |-> Rect(665, 132, 815, 152),
     extract_acad_year |-> Rect(665, 152, 815, 172),
     extract_semester |-> Rect(300, 112, 550, 129),
     extract_block_no |-> Rect(275, 206, 375, 231)]

\* C8: on a loaded and normalized image each named field extraction returns
\* the crop of its rectangle of the canonical frame: band origin plus the
\* field's band-relative offset, with the field's width and height.
C8_FieldCrop ==
    (Loaded /\ normalized /\ result.op \in DOMAIN FieldRect)
        => /\ result.status = "returned"
           /\ Frame(result.image[1]) = FieldRect[result.op]
           /\ result.image[1].vis = FieldRect[result.op]

\* C9: every get_top_image call crops a band as wide as the image held at
\* the time of the call.
C9_TopWidthAtCallTime ==
    Returned("get_top_image") => result.image[1].width = image[1].width

\* C10: on a loaded and normalized object, with no load_file or
\* resize_image in between, a later call of an extraction operation returns
\* what an earlier call of the same operation returned, rectangle and
\* content, whatever other extractions ran before or between.
C10_SameCallSameCrop ==
    (Loaded /\ normalized /\ memo.op # "" /\ result.op = memo.op)
        => /\ result.status = memo.status
           /\ result.image = memo.image
           /\ result.rows = memo.rows

C10_Witness ==
    /\ Loaded
    /\ normalized
    /\ memo.op = "extract_student_no"
    /\ memo.again
    /\ memo.others
    /\ Returned("extract_student_no")
    /\ result.image = memo.image

\* C11: the decode path is chosen by the content of the bytes alone, raster
\* decode first and PDF decode only when it fails; the filename the caller
\* gives never decides whether the bytes are processed nor which path is
\* taken, so a raster image under any filename is loaded as a raster image.
C11_ContentDecidesPath ==
    response.route # ""
        => /\ result.op # ""
           /\ file_data.kind = "raster"
                => /\ Loaded
                   /\ image[1].src = <<0, 0>>
                   /\ result.scan = NoScan
                   /\ response.media_type = "image/png"
           /\ file_data.kind # "raster"
                => (Loaded => image[1].src # <<0, 0>>)

Canonical == Rect(0, 0, 850, 1000)

TopFieldOps ==
    {"extract_student_name", "extract_course", "extract_student_no",
     "extract_acad_year", "extract_semester"}

\* The bands the latest call cropped its fields from: the cached dimensions
\* are set by then, so the same call on the object yields the same band.
TopBandNow == get_top_image(Self).image[1]
BottomBandNow == get_bottom_image(Self).image[1]

\* The band of row i of the latest extract_classes, by its class_code crop.
RowBand(i) ==
    LET y == result.rows[i].class_code.oy IN Rect(0, y, 520, y + 45)

\* C12: on a normalized 850x1000 image every rectangle an extractor crops
\* lies within the canonical frame and within its parent region: the top
\* band is (0,112,850,60) and the bottom band (0,206,520,694), both within
\* 850x1000; the five top fields lie within the top band, block_no and every
\* class row within the bottom band, the four crops of a row within the row.
C12_CropsWithinParents ==
    (Loaded /\ normalized /\ result.status = "returned")
        => /\ result.op = "get_top_image"
                => /\ Frame(result.image[1]) = Rect(0, 112, 850, 172)
                   /\ Within(Frame(result.image[1]), Canonical)
           /\ result.op = "get_bottom_image"
                => /\ Frame(result.image[1]) = Rect(0, 206, 520, 900)
                   /\ Within(Frame(result.image[1]), Canonical)
           /\ result.op \in TopFieldOps
                => /\ Within(Frame(TopBandNow), Canonical)
                   /\ Within(Frame(result.image[1]), Frame(TopBandNow))
           /\ result.op = "extract_block_no"
                => /\ Within(Frame(BottomBandNow), Canonical)
                   /\ Within(Frame(result.image[1]), Frame(BottomBandNow))
           /\ result.op = "extract_classes"
                => \A i \in 1..Len(result.rows) :
                     LET row == result.rows[i] IN
                     /\ Within(RowBand(i), Frame(BottomBandNow))
                     /\ Within(RowBand(i), Canonical)
                     /\ Within(Frame(row.class_code), RowBand(i))
                     /\ Within(Frame(row.subject_name), RowBand(i))
                     /\ Within(Frame(row.schedule), RowBand(i))
                     /\ Within(Frame(row.unit_count), RowBand(i))

\* The same, for calls that find the top band width unset or equal to the
\* width of the held image.
C12_WithinWhenWidthFresh ==
    (top_image_width \in {None, 850}) => C12_CropsWithinParents

\* C13: extract_classes returns its rows top to bottom: row i (from 0) is
\* the band y in [30 + 45 i, 30 + 45 i + 45), x in [0, 520) of the bottom
\* band, so consecutive rows are adjacent and never overlap, and the walk
\* ends for every band height, no row reaching below the band.
C13_RowsTopToBottom ==
    Returned("extract_classes")
        => LET n == Len(result.rows)
               H == cropped_height
           IN /\ \A i \in 1..n :
                   LET row == result.rows[i]
                       top == 206 + 30 + 45 * (i - 1)
                   IN /\ row.class_code.ox = 0
                      /\ row.class_code.oy = top
                      /\ row.class_code.height = 45
                      /\ row.unit_count.ox + row.unit_count.width = 520
                      /\ top + 45 <= 206 + H
              /\ \A i \in 1..(n - 1) :
                   result.rows[i + 1].class_code.oy
                     = result.rows[i].class_code.oy + result.rows[i].class_code.height
              /\ n <= H

C13_Witness ==
    /\ Returned("extract_classes")
    /\ cropped_height = 165
    /\ Len(result.rows) = 3
    /\ result.rows[3].class_code.oy = 206 + 120

ImageChangers == {"load_file", "resize_image"}

\* C14: the held image changes only in load_file and resize_image: every
\* extraction call, get_coe_image included, leaves it as it was whether it
\* returns or raises, and so does a load_file that raises.
C14_ImageFrame ==
    [][/\ result'.op \notin ImageChangers => image' = image
       /\ (result'.op = "load_file" /\ result'.status = "raised") => image' = image]_vars

C14_Witness ==
    /\ Returned("extract_block_no")
    /\ memo.op = "extract_classes"
    /\ memo.others
    /\ image = <<PIL_resize(Bitmap(600, 800, <<0, 0>>), 850, 1000)>>

====
